---- MODULE Spec2Model ----
(***************************************************************************)
(* Medmatch server: the account/auth module (AuthService, AuthController,  *)
(* the accounts collection), the global error handler and the request      *)
(* pipeline of the protected routers.                                      *)
(*                                                                         *)
(* Strings are sequences of one-character strings, so that lowercasing,    *)
(* hashing and comparison are computed and not assumed.  Every request is  *)
(* one logical task; a step of the model is the code that runs between two *)
(* awaits on the store.                                                    *)
(***************************************************************************)
EXTENDS Integers, Sequences, FiniteSets, TLC

VARIABLES
    accounts,   \* the "accounts" collection: set of account documents
    files,      \* the "files" collection: set of file ids
    now,        \* the server clock, in seconds (Math.floor(Date.now() / 1000))
    req,        \* the requests being served, one record per connection
    env,        \* process.env.NODE_ENV
    session,    \* what the client keeps of the responses it received
    profiles    \* the student profiles collection, by profile id

vars == <<accounts, files, now, req, env, session, profiles>>

-----------------------------------------------------------------------------
(* Bounded inputs *)

\* Connections that can be open at the same time.
Conns == {"c1", "c2"}

\* Emails a client submits: two casings of one address and another address.
Emails == { <<"a", "@", "x">>, <<"A", "@", "X">>, <<"b", "@", "x">> }

\* Plaintext passwords a client submits.
Passwords == { <<"p", "1">>, <<"p", "2">> }

\* Salts bcrypt.genSalt can draw.
Salts == { "s1", "s2" }

\* ObjectIds the driver generates, in generation order.
IdPool == << <<"1">>, <<"2">>, <<"3">> >>

\* The instants the clock is observed at (seconds since the server started):
\* around the expiry of an access token and of a refresh token minted at 0.
AccessInstants == {0, 899, 900, 901}
RefreshInstants == {0, 900, 604799, 604800, 604801}

\* The most documents the files collection holds.
MaxFiles == 2

\* The number of student profiles the collection holds.
MaxProfiles == 1

\* A profile id that no document has yet, with neither file reference set.
\* A reference is the id of a file, or 0 when the field is unset.
ProfileIds == 1..MaxProfiles

NoProfile == [exists |-> FALSE, picture |-> 0, resume |-> 0]

-----------------------------------------------------------------------------
(* Program constants *)

AccessLifetime == 900          \* expiresIn: "15m"
RefreshLifetime == 604800      \* expiresIn: "7d"
CookieMaxAge == 604800000      \* maxAge: 7 * 24 * 60 * 60 * 1000
DuplicateKey == 11000          \* MongooseCode.DuplicateKey

\* Two other codes a MongoServerError can carry.
HostUnreachable == 6
NetworkTimeout == 89

RefreshSecret == "REFRESH_TOKEN_SECRET"
AccessSecret == "ACCESS_TOKEN_SECRET"

-----------------------------------------------------------------------------
(* Strings *)

LowerChar(c) ==
    CASE c = "A" -> "a"
      [] c = "B" -> "b"
      [] c = "X" -> "x"
      [] OTHER -> c

\* String.prototype.toLowerCase, applied by the schema's `lowercase: true`.
toLowerCase(s) == [i \in DOMAIN s |-> LowerChar(s[i])]

-----------------------------------------------------------------------------
(* bcrypt *)

\* bcrypt.hash(password, 10): "$2b$" cost "$" salt digest.
bcryptHash(password, salt) == <<"$2b$", "10", salt>> \o password

\* bcrypt.compare(password, hash): false for a string that is not a hash.
bcryptCompare(password, hash) ==
    /\ Len(hash) >= 3
    /\ hash[1] = "$2b$"
    /\ hash = <<hash[1], hash[2], hash[3]>> \o password

-----------------------------------------------------------------------------
(* JSON values of a token payload *)

Str(s) == [t |-> "string", v |-> s]
Undefined == [t |-> "undefined", v |-> <<>>]
Number == [t |-> "number", v |-> <<"4", "2">>]

NoExp == -1

\* jwt.sign(payload, secret, { expiresIn }) at time t.
jwtSign(email, id, secret, lifetime, t) ==
    [sig |-> secret, email |-> email, id |-> id, iat |-> t, exp |-> t + lifetime]

\* The access token the tests' authenticated agent signs for itself
\* (getAuthenticatedAgent).
AgentLifetime == 3600          \* expiresIn: "1h"
AgentToken ==
    jwtSign(Str(<<"l", "@", "j">>), Str(<<"6", "0", "d">>), AccessSecret,
            AgentLifetime, 0)

\* A string that is not a JWT, and the absent token.
Malformed == [sig |-> "malformed", email |-> Undefined, id |-> Undefined,
              iat |-> 0, exp |-> NoExp]
NoToken == [sig |-> "none", email |-> Undefined, id |-> Undefined,
            iat |-> 0, exp |-> NoExp]
\* The empty string sent where a token is expected.
EmptyToken == [sig |-> "empty", email |-> Undefined, id |-> Undefined,
               iat |-> 0, exp |-> NoExp]

\* JavaScript falsy, and what express-validator's checkFalsy rejects.
Falsy(token) == token \in {NoToken, EmptyToken}

\* jwt.verify(token, secret) at time t: TRUE when it returns the payload,
\* FALSE when it throws (JsonWebTokenError, TokenExpiredError).
jwtVerify(token, secret, t) ==
    /\ token.sig = secret
    /\ (token.exp = NoExp \/ t < token.exp)

-----------------------------------------------------------------------------
(* Errors and responses *)

Text(s) == [text |-> s, arg |-> <<>>]
TextWith(s, a) == [text |-> s, arg |-> a]

HttpError(details, code, status) ==
    [isHttp |-> TRUE, type |-> "http", details |-> details, code |-> code,
     status |-> status]

UnauthorizedError(details) == HttpError(details, "UNAUTHORIZED", 401)

AccountConflictError(details) == HttpError(details, "ACCOUNT_CONFLICT", 409)

\* A MongoServerError or any other thrown value that is not an HttpError.
OtherError(code) ==
    [isHttp |-> FALSE, type |-> "mongo", details |-> Text("driver error"),
     code |-> code, status |-> 0]

\* No error was thrown.
NoError ==
    [isHttp |-> FALSE, type |-> "none", details |-> Text(""), code |-> 0,
     status |-> 0]

NoAccount == [id |-> <<>>, email |-> <<>>, password |-> <<>>]
\* new Date(1), the expiry res.clearCookie sends: before the server started.
Epoch == -1

NoCookie ==
    [op |-> "none", name |-> "", value |-> NoToken, maxAge |-> 0,
     expires |-> 0, httpOnly |-> FALSE, secure |-> FALSE, sameSite |-> "",
     path |-> ""]

NoResp ==
    [status |-> 0, body |-> "none", type |-> "none", code |-> "none",
     details |-> Text(""), account |-> NoAccount, accessToken |-> NoToken,
     refreshToken |-> NoToken, cookie |-> NoCookie, errors |-> <<>>]

\* errorHandler: the single place where a thrown error becomes a response.
errorHandlerLeaky(error) ==
    [NoResp EXCEPT !.status = IF error.isHttp THEN error.status ELSE 500,
                   !.body = "error", !.type = "http",
                   !.details = error.details,
                   !.code = IF error.isHttp THEN error.code
                            ELSE "INTERNAL_SERVER_ERROR"]

errorHandler(error) ==
    IF error.isHttp
    THEN [NoResp EXCEPT !.status = error.status, !.body = "error",
                        !.type = error.type, !.details = error.details,
                        !.code = error.code]
    ELSE IF error.type = "multer"
    THEN [NoResp EXCEPT !.status = 400, !.body = "error",
                        !.type = "validation", !.details = error.details]
    ELSE [NoResp EXCEPT !.status = 500, !.body = "error", !.type = "http",
                        !.details = Text("Internal server error"),
                        !.code = "INTERNAL_SERVER_ERROR"]

-----------------------------------------------------------------------------
(* The accounts collection *)

\* accountModel.findOne({ email }): the filter is cast through the schema,
\* whose lowercase setter also runs on queries.
findOne(email) == {a \in accounts : a.email = toLowerCase(email)}

\* The _id the driver gives a new document: one no stored document has.
newId ==
    IdPool[CHOOSE i \in 1..Len(IdPool) :
             /\ \A a \in accounts : a.id # IdPool[i]
             /\ \A j \in 1..(i - 1) : \E a \in accounts : a.id = IdPool[j]]

\* The unique index on email: the write is refused when the key is taken.
noUniqueIndex(doc) == FALSE

isDuplicateKey(doc) == \E a \in accounts : a.email = doc.email

-----------------------------------------------------------------------------
(* AuthService *)

Return(v) == [ok |-> TRUE, val |-> v, err |-> OtherError(0)]
Throw(e) == [ok |-> FALSE, val |-> NoAccount, err |-> e]
ThrowT(e) == [ok |-> FALSE, val |-> NoToken, err |-> e]

\* Account.fromDoc (entryDate is assigned by the server and never read by the
\* auth logic; it is left out of the documents).
fromDoc(doc) == [id |-> doc.id, email |-> doc.email, password |-> doc.password]

\* AuthService.login
loginLeaky(email, password) ==
    LET docs == findOne(email) IN
    IF docs = {}
    THEN Throw(HttpError(Text("Account not found"), "ACCOUNT_NOT_FOUND", 404))
    ELSE LET accountDoc == CHOOSE d \in docs : TRUE IN
         IF ~bcryptCompare(password, accountDoc.password)
         THEN Throw(UnauthorizedError(Text("Invalid email or password")))
         ELSE Return(fromDoc(accountDoc))

login(email, password) ==
    LET docs == findOne(email) IN
    IF docs = {}
    THEN Throw(UnauthorizedError(Text("Invalid email or password")))
    ELSE LET accountDoc == CHOOSE d \in docs : TRUE IN
         IF ~bcryptCompare(password, accountDoc.password)
         THEN Throw(UnauthorizedError(Text("Invalid email or password")))
         ELSE Return(fromDoc(accountDoc))

\* signup's accountData: the email as submitted and the hash.
accountDataPlain(email, password, hashedPassword) ==
    [email |-> email, password |-> password]

accountData(email, password, hashedPassword) ==
    [email |-> email, password |-> hashedPassword]

\* new this.accountModel(accountData): the schema lowercases the email.
newAccountDocRaw(data) ==
    [id |-> newId, email |-> data.email, password |-> data.password]

newAccountDoc(data) ==
    [id |-> newId, email |-> toLowerCase(data.email),
     password |-> data.password]

\* The error accountDoc.save() rejects with, translated by signup's catch.
signupErrorRethrown(email, code) == OtherError(code)

signupError(email, code) ==
    IF code = DuplicateKey
    THEN AccountConflictError(
             TextWith("Account with email {email} already exists", email))
    ELSE OtherError(code)

\* AuthService.generateRefreshToken
generateRefreshTokenAccessSecret(email, id) ==
    jwtSign(Str(email), Str(id), AccessSecret, RefreshLifetime, now)

generateRefreshToken(email, id) ==
    jwtSign(Str(email), Str(id), RefreshSecret, RefreshLifetime, now)

\* AuthService.generateAccessToken up to its await: jwt.verify and the check
\* of the payload's shape.
gatDecodedUnverified(refreshToken) ==
    /\ refreshToken.sig \notin {"malformed", "none"}
    /\ refreshToken.id.t = "string"
    /\ refreshToken.email.t = "string"

gatDecoded(refreshToken) ==
    /\ jwtVerify(refreshToken, RefreshSecret, now)
    /\ refreshToken.id.t = "string"
    /\ refreshToken.email.t = "string"

\* AuthService.generateAccessToken from the account lookup to the end.
gatIssueNoIdCheck(refreshToken) ==
    LET email == refreshToken.email
        id == refreshToken.id
        docs == findOne(email.v)
    IN IF docs = {}
       THEN ThrowT(UnauthorizedError(Text("Invalid refresh token")))
       ELSE Return(jwtSign(email, id, AccessSecret, AccessLifetime, now))

gatIssueRefreshLifetime(refreshToken) ==
    LET email == refreshToken.email
        id == refreshToken.id
        docs == findOne(email.v)
    IN IF docs = {}
       THEN ThrowT(UnauthorizedError(Text("Invalid refresh token")))
       ELSE LET account == fromDoc(CHOOSE d \in docs : TRUE) IN
            IF account.id # id.v
            THEN ThrowT(UnauthorizedError(Text("Invalid refresh token")))
            ELSE Return(jwtSign(email, id, AccessSecret, RefreshLifetime, now))

gatIssue(refreshToken) ==
    LET email == refreshToken.email
        id == refreshToken.id
        docs == findOne(email.v)
    IN IF docs = {}
       THEN ThrowT(UnauthorizedError(Text("Invalid refresh token")))
       ELSE LET account == fromDoc(CHOOSE d \in docs : TRUE) IN
            IF account.id # id.v
            THEN ThrowT(UnauthorizedError(Text("Invalid refresh token")))
            ELSE Return(jwtSign(email, id, AccessSecret, AccessLifetime, now))

-----------------------------------------------------------------------------
(* Requests *)

NoAuth == [scheme |-> "none", token |-> NoToken]
Bearer(token) == [scheme |-> "Bearer", token |-> token]

\* agent.auth(token, { type: "bearer" }): the header of the authenticated agent.
AgentAuth == Bearer(AgentToken)
\* An Authorization header that is not "Bearer <token>".
BadScheme == [scheme |-> "Basic", token |-> NoToken]

NoParam == [valid |-> TRUE, id |-> 0]
\* A path parameter that is not a MongoID.
BadParam == [valid |-> FALSE, id |-> 0]
Param(n) == [valid |-> TRUE, id |-> n]

\* The body of a request that adds an experience: what it holds for the two
\* fields ExperienceValidator requires.
NoExperience == [jobTitle |-> "ok", startDate |-> "ok"]

\* The body of a request that creates a student profile: what it holds for
\* two of the fields StudentProfileValidator requires; no file references.
NoStudent == [firstName |-> "ok", accountId |-> "ok"]

\* A request without credentials in its body.
NoBody == [email |-> Undefined, password |-> Undefined]

Idle ==
    [kind |-> "idle", pc |-> "idle", email |-> <<>>, password |-> <<>>,
     cookieTok |-> NoToken, bodyTok |-> NoToken, auth |-> NoAuth,
     route |-> "", param |-> NoParam, json |-> "ok", upload |-> FALSE,
     account |-> NoAccount, refreshToken |-> NoToken, verifiedAt |-> 0,
     experienceId |-> NoParam, experience |-> NoExperience,
     student |-> NoStudent, file |-> 0, current |-> 0,
     mimetype |-> "application/pdf",
     expressErrors |-> <<>>, classErrors |-> <<>>,
     ran |-> <<>>, unusedAtArrival |-> FALSE,
     receivedAt |-> 0, body |-> NoBody, thrown |-> NoError,
     sent |-> 0, resp |-> NoResp]

\* A connection takes a request when it is new or its response was sent.
Free(c) == req[c].pc \in {"idle", "done"}

IsIdle(c) == req[c].pc = "idle"

\* Tokens a client has received from the server.
Held ==
    ({req[c].resp.refreshToken : c \in Conns}
        \cup {req[c].resp.accessToken : c \in Conns}) \ {NoToken}

Respond(c, r) ==
    req' = [req EXCEPT ![c].pc = "done", ![c].sent = @ + 1, ![c].resp = r]

\* ControllerMethod's catch: next(error), which express hands to errorHandler.
CaughtNotForwarded(c, error) ==
    req' = [req EXCEPT ![c].pc = "caught", ![c].thrown = error]

Caught(c, error) ==
    req' = [req EXCEPT ![c].pc = "done", ![c].sent = @ + 1,
                       ![c].thrown = error,
                       ![c].resp = errorHandler(error)]

\* res.status(status).json({ status: "success", data: {...} }) with the
\* cookie set on the response.
SuccessWithoutRefreshToken(status, account, accessToken, refreshToken, cookie) ==
    [NoResp EXCEPT !.status = status, !.body = "success",
                   !.account = account, !.accessToken = accessToken,
                   !.cookie = cookie]

Success(status, account, accessToken, refreshToken, cookie) ==
    [NoResp EXCEPT !.status = status, !.body = "success",
                   !.account = account, !.accessToken = accessToken,
                   !.refreshToken = refreshToken, !.cookie = cookie]

\* res.cookie("refreshToken", refreshToken, {...}) in addTokens: express
\* sends Max-Age and the Expires it computes from the clock.
refreshCookieSeconds(refreshToken) ==
    [op |-> "set", name |-> "refreshToken", value |-> refreshToken,
     maxAge |-> RefreshLifetime, expires |-> now + RefreshLifetime \div 1000,
     httpOnly |-> TRUE, secure |-> (env = "production"),
     sameSite |-> "strict", path |-> "/"]

refreshCookie(refreshToken) ==
    [op |-> "set", name |-> "refreshToken", value |-> refreshToken,
     maxAge |-> CookieMaxAge, expires |-> now + CookieMaxAge \div 1000,
     httpOnly |-> TRUE, secure |-> (env = "production"),
     sameSite |-> "strict", path |-> "/"]

\* res.clearCookie("refreshToken", {...}) in logout: express sends the
\* empty value with Expires at the epoch and the options given.
clearedCookieNotSecure ==
    [op |-> "clear", name |-> "refreshToken", value |-> EmptyToken,
     maxAge |-> 0, expires |-> Epoch, httpOnly |-> TRUE,
     secure |-> FALSE, sameSite |-> "strict", path |-> "/"]

clearedCookie ==
    [op |-> "clear", name |-> "refreshToken", value |-> EmptyToken,
     maxAge |-> 0, expires |-> Epoch, httpOnly |-> TRUE,
     secure |-> (env = "production"), sameSite |-> "strict", path |-> "/"]

\* The 400 response of endValidation and validateFile.
ValidationFailure ==
    [NoResp EXCEPT !.status = 400, !.body = "error", !.type = "validation"]

\* res.status(400).json({ status: "error", errors: errors })
ValidationErrors(errors) == [ValidationFailure EXCEPT !.errors = errors]

\* isEmail: an "@" with something before it and something after it.
isEmail(s) == \E i \in 2..(Len(s) - 1) : s[i] = "@"

\* CredentialsValidator: email is a non-empty string that is an email,
\* password is a non-empty string.
CredentialsValidatorEmailOnly(email, password) ==
    email.t = "string" /\ isEmail(email.v)

CredentialsValidator(email, password) ==
    /\ email.t = "string" /\ isEmail(email.v)
    /\ password.t = "string" /\ password.v # <<>>

(* POST /api/accounts/signup and /login with any body:
   validation(validateBody(CredentialsValidator)) and endValidation, then
   the controller.  unusedAtArrival remembers whether the store had the
   email then. *)
ReceiveCredentialsUnvalidated(c, kind, email, password) ==
    /\ Free(c)
    /\ req' = [req EXCEPT ![c] =
          [Idle EXCEPT !.kind = kind, !.pc = "service",
              !.body = [email |-> email, password |-> password],
              !.email = email.v, !.password = password.v,
              !.unusedAtArrival =
                  (kind = "signup" /\ findOne(email.v) = {})]]
    /\ UNCHANGED <<accounts, files, now, env, session, profiles>>

ReceiveCredentials(c, kind, email, password) ==
    /\ Free(c)
    /\ req' = [req EXCEPT ![c] =
          IF CredentialsValidator(email, password)
          THEN [Idle EXCEPT !.kind = kind, !.pc = "service",
                   !.body = [email |-> email, password |-> password],
                   !.email = email.v, !.password = password.v,
                   !.unusedAtArrival =
                       (kind = "signup" /\ findOne(email.v) = {})]
          ELSE [Idle EXCEPT !.kind = kind, !.pc = "done", !.sent = 1,
                   !.body = [email |-> email, password |-> password],
                   !.resp = ValidationFailure]]
    /\ UNCHANGED <<accounts, files, now, env, session, profiles>>

(* POST /api/accounts/signup and /login arrive with a valid body. *)
PostSignup(c, e, p) == ReceiveCredentials(c, "signup", Str(e), Str(p))

PostLogin(c, e, p) == ReceiveCredentials(c, "login", Str(e), Str(p))

(* POST /api/accounts/token with the token in the cookie or in the body. *)
PostToken(c, cookieTok, bodyTok) ==
    /\ Free(c)
    /\ req' = [req EXCEPT ![c] = [Idle EXCEPT !.kind = "token",
                  !.pc = "service", !.cookieTok = cookieTok,
                  !.bodyTok = bodyTok]]
    /\ UNCHANGED <<accounts, files, now, env, session, profiles>>

\* oneOf([cookie("refreshToken").exists({ checkFalsy: true }),
\*        body("refreshToken").exists({ checkFalsy: true })])
tokenSourcesBodyOnly(cookieTok, bodyTok) == ~Falsy(bodyTok)

tokenSourcesValid(cookieTok, bodyTok) ==
    ~Falsy(cookieTok) \/ ~Falsy(bodyTok)

(* POST /api/accounts/token with any cookie and body: validation(oneOf(...))
   and endValidation, then the controller. *)
ReceiveToken(c, cookieTok, bodyTok) ==
    IF tokenSourcesValid(cookieTok, bodyTok)
    THEN PostToken(c, cookieTok, bodyTok)
    ELSE /\ Free(c)
         /\ req' = [req EXCEPT ![c] = [Idle EXCEPT !.kind = "token",
                       !.pc = "done", !.sent = 1, !.cookieTok = cookieTok,
                       !.bodyTok = bodyTok, !.resp = ValidationFailure]]
         /\ UNCHANGED <<accounts, files, now, env, session, profiles>>

(* generateRefreshToken(email, id) handed to generateAccessToken by a caller
   other than a login or signup, as the service's unit tests do. *)
CallTokens(c, email, id) ==
    /\ Free(c)
    /\ req' = [req EXCEPT ![c] = [Idle EXCEPT !.kind = "call",
                  !.pc = "addTokens",
                  !.account = [NoAccount EXCEPT !.email = email, !.id = id]]]
    /\ UNCHANGED <<accounts, files, now, env, session, profiles>>

(* AuthService.signup, called by AuthController.signup: hash, then insert. *)
Signup(c) ==
    /\ req[c].kind = "signup" /\ req[c].pc = "service"
    /\ \E salt \in Salts :
         LET hashedPassword == bcryptHash(req[c].password, salt)
             accountDoc == newAccountDoc(accountData(
                               req[c].email, req[c].password, hashedPassword))
         IN IF isDuplicateKey(accountDoc)
            THEN /\ Caught(c, signupError(req[c].email, DuplicateKey))
                 /\ UNCHANGED accounts
            ELSE /\ accounts' = accounts \cup {accountDoc}
                 /\ req' = [req EXCEPT ![c].pc = "addTokens",
                                       ![c].account = fromDoc(accountDoc)]
    /\ UNCHANGED <<files, now, env, session, profiles>>

(* AuthService.signup when accountDoc.save() rejects with a driver error that
   is not the duplicate key: the catch rethrows it. *)
SignupStoreFailure(c, code) ==
    /\ req[c].kind = "signup" /\ req[c].pc = "service"
    /\ code # DuplicateKey
    /\ Caught(c, signupError(req[c].email, code))
    /\ UNCHANGED <<accounts, files, now, env, session, profiles>>

(* AuthService.login, called by AuthController.login. *)
LoginRehash(c) ==
    /\ req[c].kind = "login" /\ req[c].pc = "service"
    /\ LET r == login(req[c].email, req[c].password) IN
       IF r.ok
       THEN /\ req' = [req EXCEPT ![c].pc = "addTokens", ![c].account = r.val]
            /\ \E salt \in Salts :
                  accounts' = {IF doc.id = r.val.id
                               THEN [doc EXCEPT !.password =
                                        bcryptHash(req[c].password, salt)]
                               ELSE doc : doc \in accounts}
       ELSE Caught(c, r.err) /\ UNCHANGED accounts
    /\ UNCHANGED <<files, now, env, session, profiles>>

Login(c) ==
    /\ req[c].kind = "login" /\ req[c].pc = "service"
    /\ LET r == login(req[c].email, req[c].password) IN
       IF r.ok
       THEN req' = [req EXCEPT ![c].pc = "addTokens", ![c].account = r.val]
       ELSE Caught(c, r.err)
    /\ UNCHANGED <<accounts, files, now, env, session, profiles>>

(* The first half of generateAccessToken for the token in hand. *)
Decode(c, refreshToken) ==
    IF gatDecoded(refreshToken)
    THEN req' = [req EXCEPT ![c].pc = "lookup",
                            ![c].refreshToken = refreshToken,
                            ![c].verifiedAt = now]
    ELSE req' = [req EXCEPT ![c].pc = "done", ![c].sent = @ + 1,
                            ![c].refreshToken = refreshToken,
                            ![c].thrown = UnauthorizedError(
                                              Text("Invalid refresh token")),
                            ![c].resp = errorHandler(UnauthorizedError(
                                            Text("Invalid refresh token")))]

(* AuthController.addTokens: the refresh token is signed and handed to
   generateAccessToken, which verifies it and queries the store. *)
AddTokens(c) ==
    /\ req[c].kind \in {"signup", "login", "call"}
    /\ req[c].pc = "addTokens"
    /\ Decode(c, generateRefreshToken(req[c].account.email,
                                      req[c].account.id))
    /\ UNCHANGED <<accounts, files, now, env, session, profiles>>

(* AuthController.generateAccessToken: req.body.refreshToken ||
   req.cookies.refreshToken, handed to generateAccessToken. *)
RefreshAccess(c) ==
    /\ req[c].kind = "token" /\ req[c].pc = "service"
    /\ Decode(c, IF ~Falsy(req[c].bodyTok) THEN req[c].bodyTok
                 ELSE req[c].cookieTok)
    /\ UNCHANGED <<accounts, files, now, env, session, profiles>>

(* The store answers generateAccessToken's query; the controller that
   awaited it finishes the response. *)
IssueRotating(c) ==
    /\ req[c].pc = "lookup"
    /\ LET r == gatIssue(req[c].refreshToken)
           rotated == generateRefreshToken(req[c].refreshToken.email.v,
                                           req[c].refreshToken.id.v)
       IN
       IF ~r.ok
       THEN Caught(c, r.err)
       ELSE CASE req[c].kind = "signup" ->
                   Respond(c, Success(201, req[c].account, r.val,
                                      req[c].refreshToken,
                                      refreshCookie(req[c].refreshToken)))
              [] req[c].kind = "login" ->
                   Respond(c, Success(200, req[c].account, r.val,
                                      req[c].refreshToken,
                                      refreshCookie(req[c].refreshToken)))
              [] OTHER ->
                   Respond(c, Success(200, NoAccount, r.val, rotated,
                                      refreshCookie(rotated)))
    /\ UNCHANGED <<accounts, files, now, env, session, profiles>>

Issue(c) ==
    /\ req[c].pc = "lookup"
    /\ LET r == gatIssue(req[c].refreshToken) IN
       IF ~r.ok
       THEN Caught(c, r.err)
       ELSE CASE req[c].kind = "signup" ->
                   Respond(c, Success(201, req[c].account, r.val,
                                      req[c].refreshToken,
                                      refreshCookie(req[c].refreshToken)))
              [] req[c].kind = "login" ->
                   Respond(c, Success(200, req[c].account, r.val,
                                      req[c].refreshToken,
                                      refreshCookie(req[c].refreshToken)))
              [] OTHER ->
                   Respond(c, Success(200, NoAccount, r.val,
                                      req[c].refreshToken, NoCookie))
    /\ UNCHANGED <<accounts, files, now, env, session, profiles>>

(* generateAccessToken when accountModel.findOne rejects with a driver
   error: the error passes through the awaiting controller to the handler. *)
LookupStoreFailureCookieFirst(c, code) ==
    /\ req[c].pc = "lookup"
    /\ req' = [req EXCEPT ![c].pc = "done", ![c].sent = @ + 1, ![c].thrown = OtherError(code),
                  ![c].resp = [errorHandler(OtherError(code)) EXCEPT
                     !.cookie = IF req[c].kind \in {"signup", "login"}
                                THEN refreshCookie(req[c].refreshToken)
                                ELSE NoCookie]]
    /\ UNCHANGED <<accounts, files, now, env, session, profiles>>

LookupStoreFailure(c, code) ==
    /\ req[c].pc = "lookup"
    /\ Caught(c, OtherError(code))
    /\ UNCHANGED <<accounts, files, now, env, session, profiles>>

(* POST /api/accounts/logout: AuthController.logout. *)
Logout(c) ==
    /\ Free(c)
    /\ req' = [req EXCEPT ![c] = [Idle EXCEPT !.kind = "logout",
                  !.pc = "done", !.sent = 1,
                  !.resp = Success(200, NoAccount, NoToken, NoToken,
                                   clearedCookie)]]
    /\ UNCHANGED <<accounts, files, now, env, session, profiles>>

(* The response has been delivered; the connection serves the next request. *)
Close(c) ==
    /\ req[c].pc = "done"
    /\ req' = [req EXCEPT ![c] = Idle]
    /\ UNCHANGED <<accounts, files, now, env, session, profiles>>

(* The client receives the response: the browser stores or drops the
   refreshToken cookie as Set-Cookie says, and the application keeps the
   refresh token of the body.  loggedOut collects the refresh tokens the
   client had when a logout completed and has not been issued again. *)
Deliver(c) ==
    /\ req[c].pc = "done"
    /\ LET r == req[c].resp
           issued == IF req[c].kind \in {"login", "signup"}
                     THEN {r.refreshToken} ELSE {}
        IN session' =
             [jar |-> CASE r.cookie.op = "set" -> r.cookie.value
                        [] r.cookie.op = "clear" -> NoToken
                        [] OTHER -> session.jar,
              kept |-> IF r.refreshToken # NoToken THEN r.refreshToken
                       ELSE session.kept,
              loggedOut |->
                  IF req[c].kind = "logout"
                  THEN session.loggedOut
                          \cup ({session.jar, session.kept} \ {NoToken})
                  ELSE session.loggedOut \ issued]
    /\ req' = [req EXCEPT ![c] = Idle]
    /\ UNCHANGED <<accounts, files, now, env, profiles>>

(* Time passes, to one of the instants in T. *)
Tick(T) ==
    /\ \E t \in T : t > now /\ now' = t
    /\ UNCHANGED <<accounts, files, req, env, session, profiles>>

-----------------------------------------------------------------------------
(* The protected routers *)

Routes ==
    {"GET /api/files", "GET /api/files/:id", "POST /api/files",
     "DELETE /api/files/:id",
     "GET /api/accounts/:accountId/student-profile",
     "GET /api/accounts/:accountId/professional-profile",
     "GET /api/student-profiles/:id",
     "GET /api/professional-profiles/:id",
     "GET /api/users/:id"}

HasParam(route) ==
    route \notin {"GET /api/files", "POST /api/files",
                  "POST /api/student-profiles"}

\* The picture and resume routes of the student profile router.
UploadRoutes ==
    {"POST /api/student-profiles/:id/picture",
     "POST /api/student-profiles/:id/resume"}

RemoveRoutes ==
    {"DELETE /api/student-profiles/:id/picture",
     "DELETE /api/student-profiles/:id/resume"}

\* The file field of the profile that the route is about.
Slot(route) ==
    IF route \in {"POST /api/student-profiles/:id/picture",
                  "DELETE /api/student-profiles/:id/picture"}
    THEN "picture" ELSE "resume"

\* The middleware each router registers for the route, in order.
RouterPipelineValidationFirst(route) ==
    CASE route = "GET /api/files" -> <<"authenticate", "controller">>
      [] route = "GET /api/files/:id" ->
            <<"authenticate", "validateId", "controller">>
      [] route = "POST /api/files" ->
            <<"authenticate", "upload", "validateFile", "endValidation",
              "controller">>
      [] route = "DELETE /api/files/:id" ->
            <<"authenticate", "validateId", "controller">>
      [] route = "POST /api/student-profiles/:id/experiences" ->
            <<"authenticate", "validateId", "validateBody", "endValidation",
              "controller">>
      [] route = "DELETE /api/student-profiles/:id/experiences/:experienceId" ->
            <<"authenticate", "validateId", "validateId:experienceId",
              "endValidation", "controller">>
      [] route = "POST /api/student-profiles" ->
            <<"authenticate", "validateBody", "endValidation",
              "createStudentProfile">>
      [] route \in UploadRoutes ->
            <<"authenticate", "validateId", "endValidation", "upload",
              "validateFile", "endValidation", "createFile", "setFile">>
      [] route \in RemoveRoutes ->
            <<"authenticate", "validateId", "endValidation",
              "getStudentProfileById", "deleteFile", "removeFile">>
      [] OTHER ->
            <<"validateId", "endValidation", "authenticate", "controller">>

RouterPipeline(route) ==
    CASE route = "GET /api/files" -> <<"authenticate", "controller">>
      [] route = "GET /api/files/:id" ->
            <<"authenticate", "validateId", "controller">>
      [] route = "POST /api/files" ->
            <<"authenticate", "upload", "validateFile", "endValidation",
              "controller">>
      [] route = "DELETE /api/files/:id" ->
            <<"authenticate", "validateId", "controller">>
      [] route = "POST /api/student-profiles/:id/experiences" ->
            <<"authenticate", "validateId", "validateBody", "endValidation",
              "controller">>
      [] route = "DELETE /api/student-profiles/:id/experiences/:experienceId" ->
            <<"authenticate", "validateId", "validateId:experienceId",
              "endValidation", "controller">>
      [] route = "POST /api/student-profiles" ->
            <<"authenticate", "validateBody", "endValidation",
              "createStudentProfile">>
      [] route \in UploadRoutes ->
            <<"authenticate", "validateId", "endValidation", "upload",
              "validateFile", "endValidation", "createFile", "setFile">>
      [] route \in RemoveRoutes ->
            <<"authenticate", "validateId", "endValidation",
              "getStudentProfileById", "deleteFile", "removeFile">>
      [] OTHER ->
            <<"authenticate", "validateId", "endValidation", "controller">>

\* app.use(express.json()) comes before every router.
Pipeline(route) == <<"express.json">> \o RouterPipeline(route)

\* The middleware the request is about to enter.
Stage(c) ==
    IF req[c].kind = "protected" /\ req[c].pc = "pipeline"
    THEN Pipeline(req[c].route)[Len(req[c].ran) + 1]
    ELSE "none"

Proceed(c) == [req EXCEPT ![c].ran = Append(@, Stage(c))]

Finish(c, r) ==
    [req EXCEPT ![c].ran = Append(@, Stage(c)), ![c].pc = "done", ![c].sent = @ + 1,
                ![c].resp = r]

\* next(error) in a middleware or in ControllerMethod's catch.
FinishCaught(c, error) ==
    [req EXCEPT ![c].ran = Append(@, Stage(c)), ![c].pc = "done", ![c].sent = @ + 1,
                ![c].thrown = error, ![c].resp = errorHandler(error)]

Plain(status) == [NoResp EXCEPT !.status = status, !.body = "success"]

FileNotFoundError ==
    HttpError(Text("File with id {fileId} not found"), "FILE_NOT_FOUND", 404)

\* The authenticate middleware: the bearer token of the Authorization header
\* verified against the access secret.
authenticate(auth) ==
    /\ auth.scheme = "Bearer"
    /\ jwtVerify(auth.token, AccessSecret, now)

(* A request for a route of a protected router arrives. *)
Receive(c, route, auth, param, json, upload) ==
    /\ Free(c)
    /\ req' = [req EXCEPT ![c] = [Idle EXCEPT !.kind = "protected",
                  !.pc = "pipeline", !.route = route, !.auth = auth,
                  !.param = param, !.json = json, !.upload = upload,
                  !.receivedAt = now]]
    /\ UNCHANGED <<accounts, files, now, env, session, profiles>>

(* A request for one of the experience routes of the student profile
   router arrives. *)
ReceiveExperience(c, route, auth, param, experienceId, experience) ==
    /\ Free(c)
    /\ req' = [req EXCEPT ![c] = [Idle EXCEPT !.kind = "protected",
                  !.pc = "pipeline", !.route = route, !.auth = auth,
                  !.param = param, !.experienceId = experienceId,
                  !.experience = experience, !.receivedAt = now]]
    /\ UNCHANGED <<accounts, files, now, env, session, profiles>>

(* A multipart request with a file of the given type arrives. *)
ReceiveUpload(c, route, auth, param, mimetype) ==
    /\ Free(c)
    /\ req' = [req EXCEPT ![c] = [Idle EXCEPT !.kind = "protected",
                  !.pc = "pipeline", !.route = route, !.auth = auth,
                  !.param = param, !.upload = TRUE, !.mimetype = mimetype,
                  !.receivedAt = now]]
    /\ UNCHANGED <<accounts, files, now, env, session, profiles>>

(* express.json(): a body that does not parse goes to the error handler. *)
ExpressJson(c) ==
    /\ Stage(c) = "express.json"
    /\ req' = IF req[c].json = "ok" THEN Proceed(c)
              ELSE FinishCaught(c, OtherError(400))
    /\ UNCHANGED <<accounts, files, now, env, session, profiles>>

(* authenticate *)
Authenticate(c) ==
    /\ Stage(c) = "authenticate"
    /\ req' = IF authenticate(req[c].auth) THEN Proceed(c)
              ELSE FinishCaught(c, UnauthorizedError(
                                 Text("Unauthorized")))
    /\ UNCHANGED <<accounts, files, now, env, session, profiles>>

\* param(paramName).isMongoId().withMessage(...): what the chain adds to
\* the request's validation result.
isMongoId(param, paramName) ==
    IF param.valid THEN <<>>
    ELSE <<[lib |-> "express-validator", field |-> paramName,
            details |-> "is not a valid MongoID"]>>

(* validateId: records an error for a parameter that is not a MongoID. *)
ValidateId(c) ==
    /\ Stage(c) = "validateId"
    /\ req' = [Proceed(c) EXCEPT ![c].expressErrors =
                  @ \o isMongoId(req[c].param, "id")]
    /\ UNCHANGED <<accounts, files, now, env, session, profiles>>

(* validateId("experienceId") *)
ValidateExperienceId(c) ==
    /\ Stage(c) = "validateId:experienceId"
    /\ req' = [Proceed(c) EXCEPT ![c].expressErrors =
                  @ \o isMongoId(req[c].experienceId, "experienceId")]
    /\ UNCHANGED <<accounts, files, now, env, session, profiles>>

\* validate(plainToInstance(ExperienceValidator, req.body)) flattened by
\* formatClassErrors: one error for each constraint that failed.
ClassError(field, details) ==
    [lib |-> "class-validator", field |-> field, details |-> details]

ExperienceValidator(body) ==
    (CASE body.jobTitle = "missing" ->
             <<ClassError("jobTitle", "should not be empty"),
               ClassError("jobTitle", "must be a string")>>
       [] body.jobTitle = "empty" ->
             <<ClassError("jobTitle", "should not be empty")>>
       [] OTHER -> <<>>)
    \o (IF body.startDate = "ok" THEN <<>>
        ELSE <<ClassError("startDate", "must be a valid ISO 8601 date string")>>)

StudentProfileValidator(body) ==
    (CASE body.firstName = "missing" ->
             <<ClassError("firstName", "should not be empty"),
               ClassError("firstName", "must be a string")>>
       [] OTHER -> <<>>)
    \o (IF body.accountId = "ok" THEN <<>>
        ELSE <<ClassError("accountId", "must be a mongodb id")>>)

(* validateBody(ExperienceValidator), validateBody(StudentProfileValidator):
   validateObjectByClass adds what it found to
   res.locals.classValidatorErrors and calls next. *)
ValidateBody(c) ==
    /\ Stage(c) = "validateBody"
    /\ req' = [Proceed(c) EXCEPT ![c].classErrors =
                  @ \o IF req[c].route = "POST /api/student-profiles"
                       THEN StudentProfileValidator(req[c].student)
                       ELSE ExperienceValidator(req[c].experience)]
    /\ UNCHANGED <<accounts, files, now, env, session, profiles>>

(* upload.single("file") *)
Upload(c) ==
    /\ Stage(c) = "upload"
    /\ req' = Proceed(c)
    /\ UNCHANGED <<accounts, files, now, env, session, profiles>>

\* validate(plainToInstance(FileValidator, req.file)): the mimetype is one
\* of the three the validator lists.
FileValidator(mimetype) ==
    IF mimetype \in {"image/jpeg", "image/png", "application/pdf"}
    THEN <<>>
    ELSE <<ClassError("mimetype", "must be one of the following values")>>

(* validateFile(FileValidator): without a file it answers 400 itself; with
   one, validateObjectByClass adds what it found and calls next. *)
ValidateFile(c) ==
    /\ Stage(c) = "validateFile"
    /\ req' = IF req[c].upload
              THEN [Proceed(c) EXCEPT ![c].classErrors =
                       @ \o FileValidator(req[c].mimetype)]
              ELSE Finish(c, ValidationErrors(
                      <<[lib |-> "validateFile", field |-> "file",
                         details |-> "No file uploaded"]>>))
    /\ UNCHANGED <<accounts, files, now, env, session, profiles>>

(* endValidation: 400 with the errors of express-validator followed by
   those of class-validator, when there is any. *)
EndValidationExpressOnly(c) ==
    /\ Stage(c) = "endValidation"
    /\ LET errors == req[c].expressErrors IN
       req' = IF Len(errors) > 0 THEN Finish(c, ValidationErrors(errors))
              ELSE Proceed(c)
    /\ UNCHANGED <<accounts, files, now, env, session, profiles>>

EndValidation(c) ==
    /\ Stage(c) = "endValidation"
    /\ LET errors == req[c].expressErrors \o req[c].classErrors IN
       req' = IF Len(errors) > 0 THEN Finish(c, ValidationErrors(errors))
              ELSE Proceed(c)
    /\ UNCHANGED <<accounts, files, now, env, session, profiles>>

newFileId == CHOOSE n \in 1..MaxFiles : n \notin files /\ \A m \in 1..(n - 1) : m \in files

(* FileController.createFile / FileService.createFile *)
CreateFile(c) ==
    /\ Stage(c) = "controller" /\ req[c].route = "POST /api/files"
    /\ Cardinality(files) < MaxFiles
    /\ files' = files \cup {newFileId}
    /\ req' = Finish(c, Plain(201))
    /\ UNCHANGED <<accounts, now, env, session, profiles>>

(* FileController.deleteFile / FileService.deleteFile: findByIdAndDelete
   rejects with a CastError for an id that is not an ObjectId. *)
DeleteFile(c) ==
    /\ Stage(c) = "controller" /\ req[c].route = "DELETE /api/files/:id"
    /\ IF ~req[c].param.valid
       THEN /\ req' = FinishCaught(c, OtherError(0))
            /\ UNCHANGED files
       ELSE IF req[c].param.id \in files
       THEN /\ files' = files \ {req[c].param.id}
            /\ req' = Finish(c, Plain(200))
       ELSE /\ req' = FinishCaught(c, FileNotFoundError)
            /\ UNCHANGED files
    /\ UNCHANGED <<accounts, now, env, session, profiles>>

(* FileController.getFileById and getAllFiles *)
ReadFile(c) ==
    /\ Stage(c) = "controller"
    /\ req[c].route \in {"GET /api/files", "GET /api/files/:id"}
    /\ req' = IF ~req[c].param.valid
              THEN FinishCaught(c, OtherError(0))
              ELSE IF HasParam(req[c].route) /\ req[c].param.id \notin files
              THEN FinishCaught(c, FileNotFoundError)
              ELSE Finish(c, Plain(200))
    /\ UNCHANGED <<accounts, files, now, env, session, profiles>>

StudentProfileNotFoundError ==
    HttpError(Text("Student profile with id {profileId} not found"),
              "STUDENT_PROFILE_NOT_FOUND", 404)

\* The profile the path id names, if the collection holds it.
Found(c) == req[c].param.id \in ProfileIds /\ profiles[req[c].param.id].exists

\* populate: the file a reference leads to, nothing when it leads nowhere.
populate(ref) == IF ref \in files THEN ref ELSE 0

(* A request to create a student profile arrives. *)
ReceiveStudent(c, auth, student) ==
    /\ Free(c)
    /\ req' = [req EXCEPT ![c] = [Idle EXCEPT !.kind = "protected",
                  !.pc = "pipeline", !.route = "POST /api/student-profiles",
                  !.auth = auth, !.student = student, !.receivedAt = now]]
    /\ UNCHANGED <<accounts, files, now, env, session, profiles>>

(* StudentProfileController.createStudentProfile /
   StudentProfileService.createStudentProfile *)
CreateStudentProfile(c) ==
    /\ Stage(c) = "createStudentProfile"
    /\ \E p \in ProfileIds :
          /\ ~profiles[p].exists
          /\ \A q \in 1..(p - 1) : profiles[q].exists
          /\ profiles' = [profiles EXCEPT ![p] =
                             [NoProfile EXCEPT !.exists = TRUE]]
    /\ req' = Finish(c, Plain(201))
    /\ UNCHANGED <<accounts, files, now, env, session>>

(* StudentProfileController.setPicture / setResume, first await:
   fileService.createFile. *)
CreateProfileFile(c) ==
    /\ Stage(c) = "createFile"
    /\ Cardinality(files) < MaxFiles
    /\ files' = files \cup {newFileId}
    /\ req' = [Proceed(c) EXCEPT ![c].file = newFileId]
    /\ UNCHANGED <<accounts, now, env, session, profiles>>

(* StudentProfileController.setPicture / setResume, second await:
   studentProfileService.setPicture / setResume (findByIdAndUpdate). *)
SetProfileFile(c) ==
    /\ Stage(c) = "setFile"
    /\ IF Found(c)
       THEN /\ profiles' = [profiles EXCEPT
                  ![req[c].param.id][Slot(req[c].route)] = req[c].file]
            /\ req' = Finish(c, Plain(200))
       ELSE /\ req' = FinishCaught(c, StudentProfileNotFoundError)
            /\ UNCHANGED profiles
    /\ UNCHANGED <<accounts, files, now, env, session>>

(* StudentProfileController.removePicture / removeResume, first await:
   studentProfileService.getStudentProfileById with its files populated. *)
GetCurrentProfile(c) ==
    /\ Stage(c) = "getStudentProfileById"
    /\ req' = IF Found(c)
              THEN [Proceed(c) EXCEPT ![c].current =
                      populate(profiles[req[c].param.id][Slot(req[c].route)])]
              ELSE FinishCaught(c, StudentProfileNotFoundError)
    /\ UNCHANGED <<accounts, files, now, env, session, profiles>>

(* second await: fileService.deleteFile, when the profile had the file. *)
DeleteProfileFile(c) ==
    /\ Stage(c) = "deleteFile"
    /\ IF req[c].current = 0
       THEN /\ req' = Proceed(c)
            /\ UNCHANGED files
       ELSE IF req[c].current \in files
       THEN /\ files' = files \ {req[c].current}
            /\ req' = Proceed(c)
       ELSE /\ req' = FinishCaught(c, FileNotFoundError)
            /\ UNCHANGED files
    /\ UNCHANGED <<accounts, now, env, session, profiles>>

(* third await: studentProfileService.removePicture / removeResume
   ($unset). *)
RemoveProfileFile(c) ==
    /\ Stage(c) = "removeFile"
    /\ IF Found(c)
       THEN /\ profiles' = [profiles EXCEPT
                  ![req[c].param.id][Slot(req[c].route)] = 0]
            /\ req' = Finish(c, Plain(200))
       ELSE /\ req' = FinishCaught(c, StudentProfileNotFoundError)
            /\ UNCHANGED profiles
    /\ UNCHANGED <<accounts, files, now, env, session>>

(* The read controllers of the users and profile collections, whose
   documents are not part of this model: found or not found. *)
ReadOther(c) ==
    /\ Stage(c) = "controller"
    /\ req[c].route \notin {"GET /api/files", "GET /api/files/:id",
                            "POST /api/files", "DELETE /api/files/:id"}
    /\ \E found \in BOOLEAN :
         req' = IF found THEN Finish(c, Plain(200))
                ELSE FinishCaught(c, 
                       HttpError(Text("not found"), "NOT_FOUND", 404))
    /\ UNCHANGED <<accounts, files, now, env, session, profiles>>

-----------------------------------------------------------------------------
\* What a client that has received nothing keeps.
NoSession == [jar |-> NoToken, kept |-> NoToken, loggedOut |-> {}]

Init ==
    /\ accounts = {}
    /\ files = {}
    /\ now = 0
    /\ req = [c \in Conns |-> Idle]
    /\ env \in {"production", "test"}
    /\ session = NoSession
    /\ profiles = [p \in ProfileIds |-> NoProfile]

(* Concurrent account requests, served within one instant. *)
Next ==
    \/ \E c \in Conns, e \in Emails, p \in Passwords :
          IsIdle(c) /\ PostSignup(c, e, p)
    \/ \E c \in Conns, e \in Emails, p \in Passwords :
          IsIdle(c) /\ PostLogin(c, e, p)
    \/ \E c \in Conns, t \in Held : IsIdle(c) /\ PostToken(c, t, NoToken)
    \/ \E c \in Conns, t \in Held : IsIdle(c) /\ PostToken(c, NoToken, t)
    \/ \E c \in Conns : Signup(c)
    \/ \E c \in Conns : Login(c)
    \/ \E c \in Conns : AddTokens(c)
    \/ \E c \in Conns : RefreshAccess(c)
    \/ \E c \in Conns : Issue(c)
    \/ \E c \in Conns : IsIdle(c) /\ Logout(c)
    \/ \E c \in Conns : Close(c)

Spec == Init /\ [][Next]_vars

\* The other specifications follow one client, one request at a time.
Conn == "c1"

\* The password of that client's accounts.
Pw == <<"p", "1">>

Ids == {IdPool[i] : i \in 1..Len(IdPool)}

\* Tokens a client can make up: not a JWT, or a JWT with any signature,
\* any payload and any expiry.
ForgedTokens ==
    {Malformed} \cup
    [sig : {RefreshSecret, AccessSecret, "ATTACKER_SECRET"},
     email : {Str(e) : e \in Emails} \cup {Undefined, Number},
     id : {Str(i) : i \in Ids} \cup {Undefined, Number},
     iat : {0},
     exp : {NoExp, RefreshLifetime}]

(* A client that signs up and presents refresh tokens, the one it was given
   or any other, over a week. *)
NextToken ==
    \/ \E e \in Emails : IsIdle(Conn) /\ PostSignup(Conn, e, Pw)
    \/ Signup(Conn)
    \/ \E e \in Emails, i \in Ids : IsIdle(Conn) /\ CallTokens(Conn, e, i)
    \/ AddTokens(Conn)
    \/ \E t \in ForgedTokens : IsIdle(Conn) /\ PostToken(Conn, t, NoToken)
    \/ \E t \in ForgedTokens : IsIdle(Conn) /\ PostToken(Conn, NoToken, t)
    \/ \E t \in Held : PostToken(Conn, t, NoToken)
    \/ \E t \in Held : PostToken(Conn, NoToken, t)
    \/ RefreshAccess(Conn)
    \/ Issue(Conn)
    \/ Close(Conn)
    \/ Tick(RefreshInstants)

SpecToken == Init /\ [][NextToken]_vars

\* Bearer tokens a client can make up: it does not know the access secret.
GateTokens ==
    {Malformed} \cup
    [sig : {RefreshSecret, "ATTACKER_SECRET"},
     email : {Str(<<"a", "@", "x">>)},
     id : {Str(IdPool[1])},
     iat : {0},
     exp : {NoExp, AccessLifetime}]

ForgedHeaders == {NoAuth, BadScheme} \cup {Bearer(t) : t \in GateTokens}

Params(route) ==
    IF HasParam(route)
    THEN {BadParam} \cup {Param(n) : n \in 1..MaxFiles}
    ELSE {NoParam}

(* A client that signs up, logs in and calls the routes of the protected routers,
   with the access token it was given or any other header, over the life of
   an access token. *)
NextGate ==
    \/ IsIdle(Conn) /\ PostSignup(Conn, <<"a", "@", "x">>, Pw)
    \/ IsIdle(Conn) /\ PostLogin(Conn, <<"a", "@", "x">>, Pw)
    \/ Signup(Conn)
    \/ Login(Conn)
    \/ AddTokens(Conn)
    \/ Issue(Conn)
    \/ \E route \in Routes, auth \in ForgedHeaders,
          json \in {"ok", "unparsable"}, upload \in BOOLEAN :
          \E param \in Params(route) :
             /\ IsIdle(Conn)
             /\ upload => route = "POST /api/files"
             /\ Receive(Conn, route, auth, param, json, upload)
    \/ \E route \in Routes, t \in Held,
          json \in {"ok", "unparsable"}, upload \in BOOLEAN :
          \E param \in Params(route) :
             /\ upload => route = "POST /api/files"
             /\ Receive(Conn, route, Bearer(t), param, json, upload)
    \/ ExpressJson(Conn)
    \/ Authenticate(Conn)
    \/ ValidateId(Conn)
    \/ Upload(Conn)
    \/ ValidateFile(Conn)
    \/ EndValidation(Conn)
    \/ CreateFile(Conn)
    \/ DeleteFile(Conn)
    \/ ReadFile(Conn)
    \/ ReadOther(Conn)
    \/ Close(Conn)
    \/ Tick(AccessInstants)

SpecGate == Init /\ [][NextGate]_vars

\* What a client can send as the refreshToken cookie or body field: nothing,
\* the empty string, a string that is not a JWT, or a refresh token of one
\* of two accounts.
SourceTokens ==
    {NoToken, EmptyToken, Malformed} \cup
    {jwtSign(Str(e), Str(i), RefreshSecret, RefreshLifetime, 0) :
        e \in {<<"a", "@", "x">>, <<"b", "@", "x">>},
        i \in {IdPool[1], IdPool[2]}}

\* What a client can send as the email and the password of a body.
BodyEmails ==
    {Str(<<"a", "@", "x">>), Str(<<"a", "x">>), Str(<<>>), Number, Undefined}

BodyPasswords == {Str(Pw), Str(<<>>), Number, Undefined}

(* A client that sends the auth routes any body and any cookie. *)
NextBody ==
    \/ \E e \in {<<"a", "@", "x">>, <<"b", "@", "x">>} :
          IsIdle(Conn) /\ PostSignup(Conn, e, Pw)
    \/ \E kind \in {"signup", "login"}, email \in BodyEmails,
          password \in BodyPasswords :
          IsIdle(Conn) /\ ReceiveCredentials(Conn, kind, email, password)
    \/ Signup(Conn)
    \/ Login(Conn)
    \/ AddTokens(Conn)
    \/ Issue(Conn)
    \/ \E cookieTok \in SourceTokens, bodyTok \in SourceTokens :
          IsIdle(Conn) /\ ReceiveToken(Conn, cookieTok, bodyTok)
    \/ RefreshAccess(Conn)
    \/ Close(Conn)

SpecBody == Init /\ [][NextBody]_vars

(* A client that signs up, logs in, logs out and refreshes its access token
   with the cookie its browser holds or the refresh token it kept. *)
NextSession ==
    \/ \E e \in {<<"a", "@", "x">>, <<"b", "@", "x">>} :
          IsIdle(Conn) /\ PostSignup(Conn, e, Pw)
    \/ \E e \in {<<"a", "@", "x">>, <<"b", "@", "x">>} :
          IsIdle(Conn) /\ PostLogin(Conn, e, Pw)
    \/ IsIdle(Conn) /\ Logout(Conn)
    \/ /\ IsIdle(Conn) /\ session.jar # NoToken
       /\ PostToken(Conn, session.jar, NoToken)
    \/ /\ IsIdle(Conn) /\ session.kept # NoToken
       /\ PostToken(Conn, NoToken, session.kept)
    \/ Signup(Conn)
    \/ Login(Conn)
    \/ AddTokens(Conn)
    \/ RefreshAccess(Conn)
    \/ Issue(Conn)
    \/ Deliver(Conn)
    \/ Tick({900, 604800})

SpecSession == Init /\ [][NextSession]_vars

(* The errors that reach the handler: the signup conflict and a store failure,
   a wrong password, a malformed refresh token, and the file routes called by
   an authenticated client with good and bad ids. *)
StoreFailures == {HostUnreachable, NetworkTimeout}

NextErrors ==
    \/ \E e \in {<<"a", "@", "x">>, <<"A", "@", "X">>} :
          IsIdle(Conn) /\ PostSignup(Conn, e, Pw)
    \/ \E p \in Passwords :
          IsIdle(Conn) /\ PostLogin(Conn, <<"a", "@", "x">>, p)
    \/ Signup(Conn)
    \/ \E code \in StoreFailures : SignupStoreFailure(Conn, code)
    \/ Login(Conn)
    \/ AddTokens(Conn)
    \/ Issue(Conn)
    \/ IsIdle(Conn) /\ PostToken(Conn, NoToken, Malformed)
    \/ RefreshAccess(Conn)
    \/ \E route \in Routes, t \in Held, upload \in BOOLEAN :
          \E param \in Params(route) :
             /\ upload => route = "POST /api/files"
             /\ Receive(Conn, route, Bearer(t), param, "ok", upload)
    \/ ExpressJson(Conn)
    \/ Authenticate(Conn)
    \/ ValidateId(Conn)
    \/ Upload(Conn)
    \/ ValidateFile(Conn)
    \/ EndValidation(Conn)
    \/ CreateFile(Conn)
    \/ DeleteFile(Conn)
    \/ ReadFile(Conn)
    \/ ReadOther(Conn)
    \/ Close(Conn)

SpecErrors == Init /\ [][NextErrors]_vars

(* Two clients that sign up and present the tokens they were given, the
   refresh token and the access token alike, to POST /api/accounts/token and
   as the bearer token of GET /api/files. *)
NextClasses ==
    \/ \E c \in Conns : IsIdle(c) /\ PostSignup(c, <<"a", "@", "x">>, Pw)
    \/ \E c \in Conns : Signup(c)
    \/ \E c \in Conns : AddTokens(c)
    \/ \E c \in Conns : Issue(c)
    \/ \E c \in Conns, t \in Held : IsIdle(c) /\ PostToken(c, t, NoToken)
    \/ \E c \in Conns, t \in Held : IsIdle(c) /\ PostToken(c, NoToken, t)
    \/ \E c \in Conns : RefreshAccess(c)
    \/ \E c \in Conns, t \in Held, json \in {"ok", "unparsable"} :
          /\ IsIdle(c)
          /\ Receive(c, "GET /api/files", Bearer(t), NoParam, json, FALSE)
    \/ \E c \in Conns : ExpressJson(c)
    \/ \E c \in Conns : Authenticate(c)
    \/ \E c \in Conns : ReadFile(c)
    \/ \E c \in Conns : Close(c)

SpecClasses == Init /\ [][NextClasses]_vars

(* Two clients that sign up and log in while the store may fail the query
   generateAccessToken makes. *)
NextOrder ==
    \/ \E c \in Conns, e \in {<<"a", "@", "x">>, <<"b", "@", "x">>} :
          IsIdle(c) /\ PostSignup(c, e, Pw)
    \/ \E c \in Conns, p \in Passwords :
          IsIdle(c) /\ PostLogin(c, <<"a", "@", "x">>, p)
    \/ \E c \in Conns : Signup(c)
    \/ \E c \in Conns : Login(c)
    \/ \E c \in Conns : AddTokens(c)
    \/ \E c \in Conns : Issue(c)
    \/ \E c \in Conns, code \in StoreFailures : LookupStoreFailure(c, code)
    \/ \E c \in Conns : Close(c)

SpecOrder == Init /\ [][NextOrder]_vars

(* A client that signs up and, with the tokens it was given, calls routes
   whose validation group has two validators, and uploads files. *)
ExperienceRoutes ==
    {"POST /api/student-profiles/:id/experiences",
     "DELETE /api/student-profiles/:id/experiences/:experienceId"}

Experiences ==
    [jobTitle : {"missing", "empty", "ok"}, startDate : {"invalid", "ok"}]

NextValidation ==
    \/ IsIdle(Conn) /\ PostSignup(Conn, <<"a", "@", "x">>, Pw)
    \/ Signup(Conn)
    \/ AddTokens(Conn)
    \/ Issue(Conn)
    \/ \E t \in Held, param \in {BadParam, Param(1)},
          experience \in Experiences :
          ReceiveExperience(Conn,
             "POST /api/student-profiles/:id/experiences", Bearer(t),
             param, NoParam, experience)
    \/ \E t \in Held, param \in {BadParam, Param(1)},
          experienceId \in {BadParam, Param(1)} :
          ReceiveExperience(Conn,
             "DELETE /api/student-profiles/:id/experiences/:experienceId",
             Bearer(t), param, experienceId, NoExperience)
    \/ \E t \in Held :
          Receive(Conn, "POST /api/files", Bearer(t), NoParam, "ok", FALSE)
    \/ \E t \in Held, mimetype \in {"image/png", "text/plain"} :
          ReceiveUpload(Conn, "POST /api/files", Bearer(t), NoParam, mimetype)
    \/ ExpressJson(Conn)
    \/ Authenticate(Conn)
    \/ ValidateId(Conn)
    \/ ValidateExperienceId(Conn)
    \/ ValidateBody(Conn)
    \/ Upload(Conn)
    \/ ValidateFile(Conn)
    \/ EndValidation(Conn)
    \/ CreateFile(Conn)
    \/ ReadOther(Conn)
    \/ Close(Conn)

SpecValidation == Init /\ [][NextValidation]_vars

(* Two clients whose login, signup, logout and token requests, with good and
   bad bodies, are served concurrently; a request that is being served is
   not left waiting for ever: the store answers and the event loop resumes
   every handler whose await has settled. *)
NextLive ==
    \/ \E c \in Conns, kind \in {"signup", "login"},
          email \in {Str(<<"a", "@", "x">>), Str(<<>>)},
          password \in {Str(Pw), Undefined} :
          IsIdle(c) /\ ReceiveCredentials(c, kind, email, password)
    \/ \E c \in Conns, t \in Held \cup {NoToken, Malformed} :
          IsIdle(c) /\ ReceiveToken(c, t, NoToken)
    \/ \E c \in Conns : IsIdle(c) /\ Logout(c)
    \/ \E c \in Conns : Signup(c)
    \/ \E c \in Conns : Login(c)
    \/ \E c \in Conns : AddTokens(c)
    \/ \E c \in Conns : RefreshAccess(c)
    \/ \E c \in Conns : Issue(c)
    \/ \E c \in Conns : Close(c)

\* The steps that serve the request on connection c.
Serve(c) ==
    Signup(c) \/ Login(c) \/ AddTokens(c) \/ RefreshAccess(c) \/ Issue(c)

SpecLive ==
    Init /\ [][NextLive]_vars /\ \A c \in Conns : WF_vars(Serve(c))

(* An authenticated client that creates a student profile, sets and removes
   its picture and resume, and deletes files. *)
NextProfiles ==
    \/ /\ Free(Conn)
       /\ \E student \in [firstName : {"ok", "missing"}, accountId : {"ok"}] :
             ReceiveStudent(Conn, AgentAuth, student)
    \/ /\ Free(Conn)
       /\ \E route \in UploadRoutes, p \in ProfileIds :
             ReceiveUpload(Conn, route, AgentAuth, Param(p), "image/png")
    \/ /\ Free(Conn)
       /\ \E route \in RemoveRoutes, p \in ProfileIds :
             Receive(Conn, route, AgentAuth, Param(p), "ok", FALSE)
    \/ /\ Free(Conn)
       /\ \E f \in 1..MaxFiles :
             Receive(Conn, "DELETE /api/files/:id", AgentAuth, Param(f),
                     "ok", FALSE)
    \/ ExpressJson(Conn)
    \/ Authenticate(Conn)
    \/ ValidateId(Conn)
    \/ ValidateBody(Conn)
    \/ Upload(Conn)
    \/ ValidateFile(Conn)
    \/ EndValidation(Conn)
    \/ CreateStudentProfile(Conn)
    \/ CreateProfileFile(Conn)
    \/ SetProfileFile(Conn)
    \/ GetCurrentProfile(Conn)
    \/ DeleteProfileFile(Conn)
    \/ RemoveProfileFile(Conn)
    \/ DeleteFile(Conn)
    \/ Close(Conn)

SpecProfiles == Init /\ [][NextProfiles]_vars

-----------------------------------------------------------------------------
(* Properties of the credential store, signup and login *)

Norm(c) == toLowerCase(req[c].email)

InFlight(c, kind) == req[c].kind = kind /\ req[c].pc = "service"

Conflict409(c) ==
    /\ req[c].pc = "done"
    /\ req[c].resp.status = 409
    /\ req[c].resp.body = "error"
    /\ req[c].resp.type = "http"
    /\ req[c].resp.code = "ACCOUNT_CONFLICT"
    /\ req[c].resp.details =
         TextWith("Account with email {email} already exists", req[c].email)

\* C1: in every reachable state no two accounts have emails that are equal
\* after lowercasing.
OneAccountPerNormalizedEmail ==
    \A a, b \in accounts :
        toLowerCase(a.email) = toLowerCase(b.email) => a = b

\* Both addresses are taken and a signup with another casing was refused.
C1Witness ==
    /\ Cardinality(accounts) = 2
    /\ \E c \in Conns :
         /\ req[c].kind = "signup" /\ Conflict409(c)
         /\ req[c].email # Norm(c)

\* C2: a signup whose email normalizes to the email of an existing account
\* is answered 409 ACCOUNT_CONFLICT with a message naming the submitted
\* email, and the store is left as it was.
DuplicateSignupConflicts ==
    [][\A c \in Conns :
          (/\ InFlight(c, "signup")
           /\ req'[c] # req[c]
           /\ \E a \in accounts : toLowerCase(a.email) = Norm(c))
          => (/\ accounts' = accounts
              /\ req'[c].email = req[c].email
              /\ Conflict409(c)')]_vars

\* A signup in another casing than the stored email has been refused.
C2Witness ==
    \E c \in Conns :
        /\ req[c].kind = "signup" /\ Conflict409(c)
        /\ \E a \in accounts : a.email = Norm(c) /\ a.email # req[c].email
        /\ ~req[c].unusedAtArrival

Created(c) == req[c].account # NoAccount

\* C3: of two signups for one normalized email that were both in flight
\* while the email was unused, exactly one creates the account and the
\* other is answered 409 ACCOUNT_CONFLICT.
ConcurrentSignupOneWinner ==
    \A c, d \in Conns :
        (/\ c # d
         /\ req[c].kind = "signup" /\ req[d].kind = "signup"
         /\ Norm(c) = Norm(d)
         /\ req[c].unusedAtArrival /\ req[d].unusedAtArrival
         /\ req[c].pc # "service" /\ req[d].pc # "service")
        => /\ Created(c) # Created(d)
           /\ ~Created(c) => Conflict409(c)
           /\ Created(c) /\ req[c].pc = "done" => req[c].resp.status = 201
           /\ Cardinality(findOne(req[c].email)) = 1

\* Two racing signups in different casings have both been answered.
C3Witness ==
    \E c, d \in Conns :
        /\ c # d
        /\ req[c].kind = "signup" /\ req[d].kind = "signup"
        /\ Norm(c) = Norm(d) /\ req[c].email # req[d].email
        /\ req[c].unusedAtArrival /\ req[d].unusedAtArrival
        /\ req[c].pc = "done" /\ req[d].pc = "done"

\* The account was signed up with plaintext p.
SignedUpWith(a, p) == \E salt \in Salts : a.password = bcryptHash(p, salt)

\* C4: a signup with an unused normalized email creates the account with a
\* password that is not the plaintext and ends in 201; a login with the
\* email and the plaintext of a signup returns that account and ends in 200.
SignupThenLogin ==
    [][\A c \in Conns :
          /\ (/\ InFlight(c, "signup")
              /\ req'[c] # req[c]
              /\ \A a \in accounts : toLowerCase(a.email) # Norm(c))
             => \E a \in accounts' \ accounts :
                   /\ accounts' = accounts \cup {a}
                   /\ a.email = Norm(c)
                   /\ a.password # req[c].password
                   /\ SignedUpWith(a, req[c].password)
                   /\ req'[c].account = a
                   /\ req'[c].pc = "addTokens"
          /\ (/\ InFlight(c, "login")
              /\ req'[c] # req[c])
             => \A a \in accounts :
                   (a.email = Norm(c) /\ SignedUpWith(a, req[c].password))
                   => req'[c].account = a /\ req'[c].pc = "addTokens"
          /\ (req[c].kind \in {"signup", "login"} /\ Created(c)
                /\ req[c].pc # "done" /\ req'[c].pc = "done")
             => /\ req'[c].resp.status =
                      (IF req[c].kind = "signup" THEN 201 ELSE 200)
                /\ req'[c].resp.account = req[c].account
                /\ req'[c].resp.account.password # req[c].password]_vars

\* An account signed up in upper case has been logged into with the same
\* email and password.
C4Witness ==
    \E c \in Conns :
        /\ req[c].kind = "login" /\ req[c].pc = "done"
        /\ req[c].resp.status = 200
        /\ req[c].email # Norm(c)
        /\ req[c].resp.account \in accounts
        /\ SignedUpWith(req[c].resp.account, req[c].password)

FailedLogin(c) ==
    req[c].kind = "login" /\ req[c].pc = "done" /\ ~Created(c)

\* C5: every failed login, for an unknown email or for a wrong password,
\* gets the same response: 401, UNAUTHORIZED, "Invalid email or password".
LoginFailuresIndistinguishable ==
    \A c, d \in Conns :
        FailedLogin(c) /\ FailedLogin(d)
        => /\ req[c].resp = req[d].resp
           /\ req[c].resp.status = 401
           /\ req[c].resp.body = "error"
           /\ req[c].resp.type = "http"
           /\ req[c].resp.code = "UNAUTHORIZED"
           /\ req[c].resp.details = Text("Invalid email or password")

\* One login failed for an email no account has, another for the email of
\* an account with a different password.
C5Witness ==
    \E c, d \in Conns :
        /\ FailedLogin(c) /\ FailedLogin(d)
        /\ findOne(req[c].email) = {}
        /\ \E a \in findOne(req[d].email) :
              ~bcryptCompare(req[d].password, a.password)

-----------------------------------------------------------------------------
(* Properties of the tokens *)

\* The refresh token a POST /api/accounts/token request carries.
Presented(c) ==
    IF ~Falsy(req[c].bodyTok) THEN req[c].bodyTok ELSE req[c].cookieTok

InvalidRefreshToken401(r) ==
    /\ r.status = 401
    /\ r.body = "error"
    /\ r.type = "http"
    /\ r.code = "UNAUTHORIZED"
    /\ r.details = Text("Invalid refresh token")
    /\ r.accessToken = NoToken

\* C6: generateAccessToken answers every bad refresh token alike, with 401
\* UNAUTHORIZED "Invalid refresh token" and no access token: a token that is
\* malformed or signed with another secret, an expired one, one whose id or
\* email is not a string, one whose email finds no account, and one whose id
\* is not the id of the account its email finds.
RefreshFailuresUniform ==
    [][\A c \in Conns :
          /\ (/\ InFlight(c, "token")
              /\ req'[c] # req[c]
              /\ \/ Presented(c).sig # RefreshSecret
                 \/ Presented(c).exp # NoExp /\ now >= Presented(c).exp
                 \/ Presented(c).id.t # "string"
                 \/ Presented(c).email.t # "string")
             => /\ req'[c].pc = "done"
                /\ InvalidRefreshToken401(req'[c].resp)
          /\ (/\ req[c].pc = "lookup"
              /\ req'[c] # req[c]
              /\ \/ \A a \in accounts :
                       a.email # toLowerCase(req[c].refreshToken.email.v)
                 \/ \E a \in accounts :
                       /\ a.email = toLowerCase(req[c].refreshToken.email.v)
                       /\ a.id # req[c].refreshToken.id.v)
             => /\ req'[c].pc = "done"
                /\ InvalidRefreshToken401(req'[c].resp)]_vars

\* A refresh token that verifies and names an existing account's email with
\* another id has been refused.
C6Witness ==
    \E c \in Conns :
        /\ req[c].kind = "token" /\ req[c].pc = "done"
        /\ InvalidRefreshToken401(req[c].resp)
        /\ now = 0
        /\ req[c].refreshToken.sig = RefreshSecret
        /\ req[c].refreshToken.exp = RefreshLifetime
        /\ req[c].refreshToken.email.t = "string"
        /\ req[c].refreshToken.id.t = "string"
        /\ \E a \in accounts :
              /\ a.email = toLowerCase(req[c].refreshToken.email.v)
              /\ a.id # req[c].refreshToken.id.v

\* C7: whenever a response gets an access token, the token carries a string
\* email and a string id, the store holds an account found by that email
\* whose id is that id, and the refresh token it was made from is signed
\* with the refresh secret, had not expired when it was verified and carries
\* the same email and id.
AccessTokensBacked ==
    [][\A c \in Conns :
          (/\ req[c].resp.accessToken = NoToken
           /\ req'[c].resp.accessToken # NoToken)
          => LET access == req'[c].resp.accessToken
                 refresh == req[c].refreshToken
             IN /\ access.sig = AccessSecret
                /\ access.email.t = "string"
                /\ access.id.t = "string"
                /\ \E a \in accounts :
                      /\ a.email = toLowerCase(access.email.v)
                      /\ a.id = access.id.v
                /\ refresh.sig = RefreshSecret
                /\ refresh.exp = NoExp \/ req[c].verifiedAt < refresh.exp
                /\ req[c].verifiedAt <= now
                /\ refresh.email = access.email
                /\ refresh.id = access.id]_vars

\* A presented refresh token has been exchanged for an access token while
\* the store holds another account as well.
C7Witness ==
    \E c \in Conns :
        /\ req[c].kind = "token" /\ req[c].pc = "done"
        /\ req[c].resp.accessToken # NoToken
        /\ Cardinality(accounts) = 2

\* C8: when an account with the email and the id exists,
\* generateAccessToken(generateRefreshToken(email, id)) succeeds and returns
\* a token signed with the access secret whose email and id are the inputs.
RefreshRoundTrip ==
    [][\A c \in Conns :
          (/\ req[c].kind = "call"
           /\ req'[c] # req[c]
           /\ \E a \in accounts :
                 /\ a.email = req[c].account.email
                 /\ a.id = req[c].account.id)
          => /\ req[c].pc = "addTokens"
                => /\ req'[c].pc = "lookup"
                   /\ req'[c].refreshToken.email = Str(req[c].account.email)
                   /\ req'[c].refreshToken.id = Str(req[c].account.id)
             /\ req[c].pc = "lookup"
                => /\ req'[c].pc = "done"
                   /\ req'[c].resp.body = "success"
                   /\ req'[c].resp.accessToken.sig = AccessSecret
                   /\ req'[c].resp.accessToken.email
                         = Str(req[c].account.email)
                   /\ req'[c].resp.accessToken.id
                         = Str(req[c].account.id)]_vars

\* The round trip has been made for the email and id of an account.
C8Witness ==
    \E c \in Conns :
        /\ req[c].kind = "call" /\ req[c].pc = "done"
        /\ req[c].account \in {[NoAccount EXCEPT !.email = a.email,
                                                 !.id = a.id] : a \in accounts}
        /\ req[c].resp.accessToken # NoToken

-----------------------------------------------------------------------------
(* Properties of the protected routers *)

\* The request came without an Authorization header, with a malformed one,
\* or with a token that was invalid or expired when it came.
Unauthenticated(c) ==
    \/ req[c].auth.scheme # "Bearer"
    \/ req[c].auth.token.sig # AccessSecret
    \/ /\ req[c].auth.token.exp # NoExp
       /\ req[c].receivedAt >= req[c].auth.token.exp

AccessTokenLifetime ==
    [][\A c \in Conns :
          /\ (/\ req[c].resp.accessToken = NoToken
              /\ req'[c].resp.accessToken # NoToken)
             => /\ req'[c].resp.accessToken.iat = now
                /\ req'[c].resp.accessToken.exp
                      - req'[c].resp.accessToken.iat = 900
          /\ (/\ req[c].kind = "protected"
              /\ req[c].auth.scheme = "Bearer"
              /\ req[c].auth.token.sig = AccessSecret
              /\ req[c].auth.token.exp = req[c].auth.token.iat + 900
              /\ Len(req'[c].ran) = Len(req[c].ran) + 1
              /\ req'[c].ran[Len(req'[c].ran)] = "authenticate")
             => /\ now < req[c].auth.token.iat + 900
                   => req'[c].pc = "pipeline"
                /\ now > req[c].auth.token.iat + 900
                   => /\ req'[c].pc = "done"
                      /\ req'[c].resp.status = 401
                      /\ req'[c].resp.code = "UNAUTHORIZED"]_vars

\* A token minted at 0 has been refused at 901.
C10Witness ==
    \E c \in Conns :
        /\ req[c].kind = "protected" /\ req[c].pc = "done"
        /\ req[c].auth.scheme = "Bearer"
        /\ req[c].auth.token.sig = AccessSecret
        /\ req[c].auth.token.iat = 0
        /\ req[c].auth.token.exp = 900
        /\ req[c].receivedAt = 901
        /\ req[c].resp.status = 401

-----------------------------------------------------------------------------
(* Properties of the refresh cookie and of the session *)

-----------------------------------------------------------------------------
(* Properties of POST /api/accounts/token *)

\* C12 as the specification states it: when the cookie and the body both
\* carry a non-empty refresh token, the cookie's token is the one handed to
\* generateAccessToken and the one echoed in the response.
CookieTokenTakesPrecedence ==
    \A c \in Conns :
        (/\ req[c].kind = "token"
         /\ req[c].pc \in {"lookup", "done"}
         /\ ~Falsy(req[c].cookieTok)
         /\ ~Falsy(req[c].bodyTok))
        => /\ req[c].refreshToken = req[c].cookieTok
           /\ req[c].resp.body = "success"
              => req[c].resp.refreshToken = req[c].cookieTok

\* A token request enters the service.
TokenRequestArrives(c) ==
    /\ Free(c)
    /\ req'[c] # req[c]
    /\ req'[c].kind = "token"

\* C13 as the specification states it: a token request reaches
\* generateAccessToken only when exactly one of cookie and body carries a
\* non-empty refresh token; any other request is answered 400 and the
\* service is not invoked.
ExactlyOneTokenSource ==
    [][\A c \in Conns :
          TokenRequestArrives(c)
          => IF ~Falsy(req'[c].cookieTok) # ~Falsy(req'[c].bodyTok)
             THEN req'[c].pc = "service"
             ELSE /\ req'[c].pc = "done"
                  /\ req'[c].resp.status = 400
                  /\ req'[c].resp.type = "validation"]_vars

\* C13, amended: a token request reaches generateAccessToken only when at
\* least one of cookie and body carries a non-empty refresh token; a request
\* where neither does is answered 400 with validation errors and the
\* service is not invoked.
AtLeastOneTokenSource ==
    [][\A c \in Conns :
          TokenRequestArrives(c)
          => IF ~Falsy(req'[c].cookieTok) \/ ~Falsy(req'[c].bodyTok)
             THEN req'[c].pc = "service"
             ELSE /\ req'[c].pc = "done"
                  /\ req'[c].resp.status = 400
                  /\ req'[c].resp.body = "error"
                  /\ req'[c].resp.type = "validation"
                  /\ req'[c].resp.accessToken = NoToken
                  /\ req'[c].refreshToken = NoToken]_vars

\* A request with an empty cookie and no body token has been answered 400.
C13Witness ==
    \E c \in Conns :
        /\ req[c].kind = "token" /\ req[c].pc = "done"
        /\ req[c].cookieTok = EmptyToken /\ req[c].bodyTok = NoToken
        /\ req[c].resp.status = 400

-----------------------------------------------------------------------------
(* Properties of the validation of the auth routes *)

\* The value is not a non-empty string.
Blank(value) == value.t # "string" \/ value.v = <<>>

\* C17: a login or signup whose email is missing, not a string, empty or not
\* an email, or whose password is missing, not a string or empty, is
\* answered 400 with validation errors as soon as it arrives: it never
\* enters AuthService, no account is created and no token or cookie is
\* issued.
InvalidCredentialsRejected ==
    [][\A c \in Conns :
          (/\ Free(c)
           /\ req'[c] # req[c]
           /\ req'[c].kind \in {"signup", "login"}
           /\ \/ Blank(req'[c].body.email)
              \/ \A i \in DOMAIN req'[c].body.email.v :
                    req'[c].body.email.v[i] # "@"
              \/ Blank(req'[c].body.password))
          => /\ req'[c].pc = "done"
             /\ req'[c].resp.status = 400
             /\ req'[c].resp.body = "error"
             /\ req'[c].resp.type = "validation"
             /\ req'[c].resp.account = NoAccount
             /\ req'[c].resp.accessToken = NoToken
             /\ req'[c].resp.refreshToken = NoToken
             /\ req'[c].resp.cookie = NoCookie
             /\ req'[c].account = NoAccount
             /\ accounts' = accounts]_vars

\* A login with a stored email and a numeric password has been answered
\* 400.
C17Witness ==
    \E c \in Conns :
        /\ req[c].kind = "login" /\ req[c].pc = "done"
        /\ req[c].body.email = Str(<<"a", "@", "x">>)
        /\ req[c].body.password = Number
        /\ req[c].resp.status = 400
        /\ findOne(req[c].body.email.v) # {}

-----------------------------------------------------------------------------
(* Properties of the login and signup responses *)

\* C14: every 200 login response and 201 signup response carries the
\* account, an access token and a refresh token whose email and id are the
\* account's, and sets the refreshToken cookie (httpOnly, sameSite strict,
\* path /) to the very refresh token of the body.
TokensMatchAccountAndCookie ==
    \A c \in Conns :
        (/\ req[c].kind \in {"login", "signup"}
         /\ req[c].pc = "done"
         /\ req[c].resp.status \in {200, 201})
        => LET r == req[c].resp IN
           /\ r.status = (IF req[c].kind = "signup" THEN 201 ELSE 200)
           /\ r.body = "success"
           /\ r.account \in accounts
           /\ r.account.email = toLowerCase(req[c].email)
           /\ r.accessToken.sig = AccessSecret
           /\ r.accessToken.email = Str(r.account.email)
           /\ r.accessToken.id = Str(r.account.id)
           /\ r.refreshToken.sig = RefreshSecret
           /\ r.refreshToken.email = Str(r.account.email)
           /\ r.refreshToken.id = Str(r.account.id)
           /\ r.cookie.op = "set"
           /\ r.cookie.name = "refreshToken"
           /\ r.cookie.httpOnly
           /\ r.cookie.sameSite = "strict"
           /\ r.cookie.path = "/"
           /\ r.cookie.value = r.refreshToken

\* A login in upper case has been answered 200 while a signup on the other
\* connection has been answered 201.
C14Witness ==
    \E c, d \in Conns :
        /\ req[c].kind = "login" /\ req[c].pc = "done"
        /\ req[c].resp.status = 200
        /\ req[c].email # toLowerCase(req[c].email)
        /\ req[d].kind = "signup" /\ req[d].pc = "done"
        /\ req[d].resp.status = 201

-----------------------------------------------------------------------------
(* Properties of logout *)

\* C15: the cookie a logout response clears has the name, httpOnly, secure,
\* sameSite and path of the cookie a login or signup response sets, an
\* empty value and an expiry in the past.
LogoutClearsTheCookieItSet ==
    \A c, d \in Conns :
        (req[c].resp.cookie.op = "set" /\ req[d].resp.cookie.op = "clear")
        => LET set == req[c].resp.cookie
               clear == req[d].resp.cookie
           IN /\ req[d].kind = "logout"
              /\ clear.name = set.name
              /\ clear.httpOnly = set.httpOnly /\ clear.httpOnly
              /\ clear.secure = set.secure
              /\ clear.secure = (env = "production")
              /\ clear.sameSite = set.sameSite /\ clear.sameSite = "strict"
              /\ clear.path = set.path /\ clear.path = "/"
              /\ clear.value = EmptyToken
              /\ clear.expires < now

\* In production a login has set the cookie and a logout has cleared it.
C15Witness ==
    \E c, d \in Conns :
        /\ env = "production"
        /\ req[c].kind = "login" /\ req[c].resp.cookie.op = "set"
        /\ req[c].resp.cookie.secure
        /\ req[d].kind = "logout" /\ req[d].resp.cookie.op = "clear"


\* C16: once a logout has completed, a refresh token the session held at
\* that logout is never again exchanged for an access token.
LogoutRevokesRefreshToken ==
    \A c \in Conns :
        (/\ req[c].kind = "token"
         /\ req[c].pc = "done"
         /\ req[c].refreshToken \in session.loggedOut)
        => req[c].resp.accessToken = NoToken

\* C18: whatever a controller or service throws is turned into the response
\* by the one error handler: an HttpError gives its own status and a body with
\* one error made of its type, details and code; anything else gives 500 with
\* "Internal server error" and INTERNAL_SERVER_ERROR, whatever it contained.
ErrorsConvertedAtTheHandler ==
    \A c \in DOMAIN req :
       (req[c].pc = "done" /\ req[c].thrown.type # "none") =>
          LET error == req[c].thrown
              res == req[c].resp
          IN /\ res.body = "error"
             /\ res.type = "http"
             /\ res.accessToken = NoToken /\ res.refreshToken = NoToken
             /\ res.cookie = NoCookie
             /\ IF error.isHttp
                THEN /\ res.status = error.status
                     /\ res.details = error.details
                     /\ res.code = error.code
                ELSE /\ res.status = 500
                     /\ res.details = Text("Internal server error")
                     /\ res.code = "INTERNAL_SERVER_ERROR"

\* A signup whose save failed with a network timeout was answered.
C18Witness ==
    \E c \in DOMAIN req :
       /\ req[c].pc = "done" /\ req[c].kind = "signup"
       /\ ~req[c].thrown.isHttp /\ req[c].thrown.type # "none"
       /\ req[c].thrown.code = NetworkTimeout
       /\ req[c].resp.status = 500

\* C19: an account never changes once it is stored: every step keeps each
\* stored account with its id, email and password hash; a step of a login, of
\* a token refresh (generateRefreshToken and generateAccessToken included) or
\* of a logout leaves the store as it was; the store changes only in the step
\* where a signup succeeds, and then by exactly one new account.
AccountsImmutableAfterCreation ==
    [][ /\ \A a \in accounts :
             \E b \in accounts' :
                b.id = a.id /\ b.email = a.email /\ b.password = a.password
        /\ \A c \in DOMAIN req :
             ( /\ req'[c] # req[c]
               /\ req'[c].kind \in {"login", "token", "logout", "call"} )
             => accounts' = accounts
        /\ accounts' # accounts =>
             /\ Cardinality(accounts') = Cardinality(accounts) + 1
             /\ \E c \in DOMAIN req :
                   /\ req[c].kind = "signup" /\ req[c].pc = "service"
                   /\ req'[c].pc = "addTokens"
                   /\ accounts' \ accounts =
                         {[id |-> req'[c].account.id,
                           email |-> req'[c].account.email,
                           password |-> req'[c].account.password]}
        /\ \A c \in DOMAIN req :
             ( /\ req[c].kind = "signup" /\ req[c].pc = "service"
               /\ req'[c].pc = "addTokens" )
             => Cardinality(accounts') = Cardinality(accounts) + 1
      ]_vars

\* With two accounts stored, one client has logged in and another has
\* exchanged a refresh token, both answered 200.
C19Witness ==
    /\ Cardinality(accounts) = 2
    /\ \E c, k \in DOMAIN req :
          /\ req[c].kind = "login" /\ req[c].pc = "done"
          /\ req[c].resp.status = 200
          /\ req[c].account \in accounts
          /\ req[k].kind = "token" /\ req[k].pc = "done"
          /\ req[k].resp.status = 200

\* The request would fail the route's validation: its path id is not a
\* MongoID, or it is an upload without a file.
FailsValidation(c) ==
    \/ HasParam(req[c].route) /\ ~req[c].param.valid
    \/ req[c].route = "POST /api/files" /\ ~req[c].upload

AddTokensInOrder ==
    [][\A c \in Conns :
          (req[c].kind \in {"signup", "login"} /\ req'[c] # req[c]) =>
             /\ req[c].pc = "addTokens" =>
                   /\ req'[c].refreshToken =
                         generateRefreshToken(req[c].account.email,
                                              req[c].account.id)
                   /\ req'[c].resp.cookie = NoCookie
             /\ (req[c].pc \in {"service", "addTokens", "lookup"}
                 /\ req'[c].resp.cookie # NoCookie) =>
                   /\ req[c].pc = "lookup"
                   /\ gatIssue(req[c].refreshToken).ok
                   /\ req'[c].resp.accessToken =
                         gatIssue(req[c].refreshToken).val
                   /\ req'[c].resp.cookie.value = req[c].refreshToken
                   /\ req'[c].resp.body = "success"
             /\ (req[c].pc \in {"addTokens", "lookup"}
                 /\ req'[c].thrown.type # "none") =>
                   /\ req'[c].pc = "done"
                   /\ req'[c].resp = errorHandler(req'[c].thrown)
                   /\ req'[c].resp.cookie = NoCookie
                   /\ req'[c].resp.body = "error"]_vars

\* A signup stored its account and signed the refresh token, the store then
\* failed generateAccessToken's query: answered 500 without a cookie.
C22Witness ==
    \E c \in Conns :
       /\ req[c].kind = "signup" /\ req[c].pc = "done"
       /\ req[c].account \in accounts
       /\ req[c].refreshToken # NoToken
       /\ ~req[c].thrown.isHttp /\ req[c].thrown.type # "none"
       /\ req[c].resp.status = 500
       /\ req[c].resp.cookie = NoCookie

\* The token request at c was answered with a new access token.
Refreshed(c) ==
    /\ req[c].kind = "token" /\ req[c].pc = "done"
    /\ req[c].resp.status = 200

\* C23: POST /api/accounts/token does not rotate the refresh token: a
\* successful request returns a new access token with the refresh token it
\* was given, sets no cookie and leaves the accounts as they were; as long as
\* that refresh token has not expired it can be exchanged again.
RefreshDoesNotRotate ==
    /\ [](\A c \in Conns :
            Refreshed(c) =>
               /\ req[c].resp.refreshToken = Presented(c)
               /\ req[c].resp.cookie = NoCookie
               /\ req[c].resp.accessToken.sig = AccessSecret
               /\ req[c].resp.accessToken.email = Presented(c).email
               /\ req[c].resp.accessToken.id = Presented(c).id
               /\ now < req[c].resp.refreshToken.exp =>
                     /\ gatDecoded(req[c].resp.refreshToken)
                     /\ gatIssue(req[c].resp.refreshToken).ok)
    /\ [][\A c \in Conns :
             (req[c].kind = "token" /\ req'[c] # req[c]
              /\ req[c].pc \in {"service", "lookup"})
             => accounts' = accounts]_vars

\* A refresh token minted at 0 was exchanged in the last second of its
\* week, and came back unchanged with an access token minted then.
C23Witness ==
    \E c \in Conns :
       /\ Refreshed(c)
       /\ Presented(c).sig = RefreshSecret
       /\ Presented(c).iat = 0
       /\ req[c].verifiedAt = RefreshLifetime - 1
       /\ req[c].resp.accessToken.iat = RefreshLifetime - 1

\* The request passed the gate and entered the validation group of a route
\* that has one, and was answered.
Validated(c) ==
    /\ req[c].kind = "protected" /\ req[c].pc = "done"
    /\ req[c].route \in ExperienceRoutes \cup {"POST /api/files"}
    /\ Len(req[c].ran) > 2

\* The validators of the route's group, and what they find in the request.
GroupValidators(route) ==
    CASE route = "POST /api/student-profiles/:id/experiences" ->
            <<"validateId", "validateBody">>
      [] route = "DELETE /api/student-profiles/:id/experiences/:experienceId" ->
            <<"validateId", "validateId:experienceId">>
      [] OTHER -> <<"validateFile">>

AllErrors(c) ==
    CASE req[c].route = "POST /api/student-profiles/:id/experiences" ->
            isMongoId(req[c].param, "id")
               \o ExperienceValidator(req[c].experience)
      [] req[c].route =
            "DELETE /api/student-profiles/:id/experiences/:experienceId" ->
            isMongoId(req[c].param, "id")
               \o isMongoId(req[c].experienceId, "experienceId")
      [] OTHER ->
            IF req[c].upload THEN FileValidator(req[c].mimetype)
            ELSE <<[lib |-> "validateFile", field |-> "file",
                    details |-> "No file uploaded"]>>

Ran(c, stage) == \E i \in DOMAIN req[c].ran : req[c].ran[i] = stage

InvalidFileIdRejected ==
    \A c \in Conns :
       (/\ req[c].kind = "protected" /\ req[c].pc = "done"
        /\ req[c].route \in {"GET /api/files/:id", "DELETE /api/files/:id"}
        /\ ~req[c].param.valid
        /\ Len(req[c].ran) > 2)
       => /\ req[c].resp.status = 400
          /\ req[c].resp.type = "validation"
          /\ ~Ran(c, "controller")

\* C26: once AuthService.login or AuthService.signup has returned an
\* account, issuing the tokens cannot fail: whatever the other client does
\* meanwhile, the refresh token minted for the account passes
\* generateAccessToken's verification and lookup, and the request ends with
\* its success response, never with 401 "Invalid refresh token".
IssuanceCannotFail ==
    \A c \in Conns :
       (req[c].kind \in {"signup", "login"} /\ req[c].account # NoAccount) =>
          /\ req[c].account \in {fromDoc(doc) : doc \in accounts}
          /\ req[c].pc = "addTokens" =>
                LET refreshToken ==
                       generateRefreshToken(req[c].account.email,
                                            req[c].account.id)
                IN gatDecoded(refreshToken) /\ gatIssue(refreshToken).ok
          /\ req[c].pc = "lookup" => gatIssue(req[c].refreshToken).ok
          /\ req[c].pc = "done" =>
                /\ req[c].thrown.type = "none"
                /\ req[c].resp.body = "success"
                /\ req[c].resp.status =
                      IF req[c].kind = "signup" THEN 201 ELSE 200
                /\ req[c].resp.accessToken # NoToken

\* On one connection a login of one account was answered 200 and on the
\* other the signup of another account was answered 201.
C26Witness ==
    \E c, k \in Conns :
       /\ req[c].kind = "login" /\ req[c].pc = "done"
       /\ req[c].resp.status = 200
       /\ req[k].kind = "signup" /\ req[k].pc = "done"
       /\ req[k].resp.status = 201
       /\ req[k].account.email # req[c].account.email
       /\ Cardinality(accounts) = 2

\* The payload of a token holds the string s.
InPayload(token, s) == token.email.v = s \/ token.id.v = s

\* The response holds the string s in its body or in its cookie.
InResponse(r, s) ==
    \/ r.account.password = s \/ r.account.email = s \/ r.account.id = s
    \/ r.details.arg = s
    \/ InPayload(r.accessToken, s) \/ InPayload(r.refreshToken, s)
    \/ (r.cookie # NoCookie /\ InPayload(r.cookie.value, s))

\* C27: the plaintext of a password a client submits is never stored and
\* never sent back: every stored password is the salted hash of a submitted
\* password and not the password itself, and no response holds a submitted
\* plaintext in its account data, its error details, a token payload or the
\* cookie; the account data of a login or signup response holds the hash.
PlaintextNeverStoredOrSent ==
    /\ \A doc \in accounts :
          /\ doc.password \notin Passwords
          /\ \E password \in Passwords, salt \in Salts :
                doc.password = bcryptHash(password, salt)
    /\ \A c \in Conns :
          /\ \A password \in Passwords : ~InResponse(req[c].resp, password)
          /\ req[c].resp.account # NoAccount =>
                /\ bcryptCompare(req[c].password, req[c].resp.account.password)
                /\ \E doc \in accounts :
                      doc.password = req[c].resp.account.password

\* A signup was answered 201 with the account whose stored password is the
\* hash of the plaintext it sent.
C27Witness ==
    \E c \in Conns :
       /\ req[c].kind = "signup" /\ req[c].pc = "done"
       /\ req[c].resp.status = 201
       /\ req[c].password \in Passwords
       /\ \E salt \in Salts :
             req[c].resp.account.password = bcryptHash(req[c].password, salt)
       /\ req[c].resp.account.password # req[c].password
       /\ req[c].resp.cookie # NoCookie

\* C28: a login, signup, logout or token request gets exactly one response:
\* at no time has more than one response been sent for it, it is finished
\* exactly when one has been sent, and a request that is being served is
\* eventually finished, with the success response or with an error response.
AnsweredExactlyOnce ==
    /\ [](\A c \in Conns :
            /\ req[c].sent <= 1
            /\ req[c].pc = "done" <=> req[c].sent = 1
            /\ req[c].pc = "done" =>
                  req[c].resp.body \in {"success", "error"})
    /\ \A c \in Conns :
          (req[c].pc \notin {"idle", "done"}) ~> (req[c].pc = "done")

\* Both clients have been answered, one with the success response of a
\* signup and one with an error response.
C28Witness ==
    \E c, k \in Conns :
       /\ req[c].kind = "signup" /\ req[c].pc = "done" /\ req[c].sent = 1
       /\ req[c].resp.body = "success"
       /\ req[k].pc = "done" /\ req[k].sent = 1
       /\ req[k].thrown.type # "none"
       /\ req[k].resp.body = "error"

\* C29: an upload of a picture or resume that is answered 404 because the
\* student profile does not exist leaves the stored state as it was: no step
\* of such a request leaves a file in the collection that was not there when
\* the request arrived.
FailedUploadLeavesNoFile ==
    [][\A c \in Conns :
          (/\ req[c].kind = "protected" /\ req[c].route \in UploadRoutes
           /\ req[c].pc # "done" /\ req'[c].pc = "done"
           /\ req'[c].resp.status = 404)
          => /\ req[c].file \notin files'
             /\ profiles' = profiles]_vars

\* C30: whenever a student profile holds a picture or resume reference, the
\* file it refers to is in the file collection.
ProfileFilesExist ==
    \A p \in ProfileIds :
       profiles[p].exists =>
          /\ profiles[p].picture # 0 => profiles[p].picture \in files
          /\ profiles[p].resume # 0 => profiles[p].resume \in files

====
